---------------------------- MODULE Spec2Model ----------------------------
(* Model of bipartite_embeddings.evaluator.Evaluator: the memoized sample  *)
(* bundle, the fit/read cycles on the shared embedding model, the edge     *)
(* embedding construction, and the two scoring procedures.                 *)
EXTENDS Integers, Sequences, FiniteSets, TLC

(* ------------------------------ bounds --------------------------------- *)
\* largest graph (number of nodes) the model builds
MaxNodes == 11
\* the embedding dimension d is 1 or MaxDim
MaxDim == 2
\* the embedding model's parameter (what makes two models differ)
MaxSeed == 0
\* graph mutations by the caller after construction
MaxMutations == 1
\* how many times the external splitter may hand back an empty bundle
MaxEmptySplits == 1

(* --------------------------- program constants ------------------------- *)
\* np.argpartition(similarities.ravel(), -100)[-100:]  and  tp / 100
TopK == 100

(* ------------------------------ enums ---------------------------------- *)
None == "None"
SampleType == {"TRAIN", "TEST"}
EdgeOperator == {"CONCAT", "HADAMARD", "AVERAGE"}
SimilarityMeasure == {"COSINE", "HAMMING", "DOT_PRODUCT"}

\* values the optional constructor arguments can hold: unset, a member, or a
\* value outside the enum (a falsy one "" and a truthy one)
OperatorValues == EdgeOperator \cup {None, "", "BOGUS"}
ClassifierValues == {None, "clf"}
MeasureValues == SimilarityMeasure \cup {"BOGUS"}

\* Python truth value of an optional scalar argument
Truthy(x) == x \notin {None, ""}

(* ------------------------------ graphs --------------------------------- *)
NodeCounts == {9, 10} \cup (11..MaxNodes)
Dims == {1, MaxDim}

NoneGraph == [kind |-> "None", n |-> 0, ver |-> 0]
Sub(kind, b) == [kind |-> kind, n |-> b.n, ver |-> b.ver]

\* graph.has_edge(u, v): symmetric; a mutated graph may carry a self-loop
HasEdge(g, u, v) ==
    IF u = v THEN g.ver >= 1 /\ u = 0
    ELSE (u + v + g.ver) % 3 = 0

(* --------------------------- sample bundle ----------------------------- *)
NoBundle == [kind |-> "None", n |-> 0, ver |-> 0, empty |-> TRUE]

\* the external splitter: a bundle of the graph as it is now, or (outside its
\* contract) an empty DotDict
get_train_test_samples(g, empty) ==
    [kind |-> "bundle", n |-> g.n, ver |-> g.ver, empty |-> empty]

\* Python truth value of self._samples: None and an empty mapping are falsy
TruthyBundle(b) == b.kind = "bundle" /\ ~b.empty

edge_ids_train(b) == << <<0, 1>>, <<1, 2>>, <<2 + b.ver, 0>> >>
edge_labels_train(b) == <<1, 0, 1>>
edge_ids_test(b) == << <<1, 0>>, <<3, 2 + b.ver>> >>
edge_labels_test(b) == <<1, 0>>

(* -------------------------- embedding model ---------------------------- *)
Unfit == [kind |-> "unfit", n |-> 0, ver |-> 0]

GraphHash(g) ==
    g.ver + (CASE g.kind = "full" -> 0 [] g.kind = "train" -> 1
               [] g.kind = "test" -> 2 [] OTHER -> 0)

\* one entry of the matrix a model with parameter `seed` holds after fit(g).
\* Entries are even, so that the element-wise mean of two rows is exact.
Entry(seed, g, i, c) == 2 * (((i * (seed + c) + GraphHash(g) + c) % 3) - 1)

\* EmbeddingModel.get_embedding(): reads the state the last fit left; row i is
\* the vector of node i
get_embedding(em) ==
    [i \in 0..(em.fitted.n - 1) |->
        [c \in 1..em.dim |-> Entry(em.seed, em.fitted, i, c)]]

(* ------------------------------ classifier ----------------------------- *)
ClfUnfit == [fitted |-> FALSE, x |-> <<>>, y |-> <<>>]

RECURSIVE SumVec(_)
SumVec(v) == IF v = <<>> THEN 0 ELSE Head(v) + SumVec(Tail(v))

\* a deterministic stub of ClassifierEstimator.predict_proba(x)[:, 1]
predict_proba(cf, x) == [k \in 1..Len(x) |-> (SumVec(x[k]) + Len(cf.x)) % 3]

\* sklearn.metrics.roc_auc_score as the pair <<2 * U, 2 * pos * neg>>, U the
\* Mann-Whitney statistic (ties count one half)
roc_auc_score(y, p) ==
    LET pos == {k \in 1..Len(y) : y[k] = 1}
        neg == {k \in 1..Len(y) : y[k] = 0}
        gt == {pr \in pos \X neg : p[pr[1]] > p[pr[2]]}
        eq == {pr \in pos \X neg : p[pr[1]] = p[pr[2]]}
    IN  <<2 * Cardinality(gt) + Cardinality(eq),
          2 * Cardinality(pos) * Cardinality(neg)>>

(* ------------------------------- state --------------------------------- *)
VARIABLES
    graph,               \* self.graph
    embedding_model,     \* self.embedding_model: [seed, dim, fitted]
    classifier,          \* self.classifier: None or an estimator
    clf_state,           \* what the estimator holds after its last fit
    embedding_operator,  \* self.embedding_operator
    _samples,            \* self._samples
    splitter_calls,      \* invocations of get_train_test_samples so far
    numpy_ties,          \* how this numpy build orders equal values
    calls,               \* collaborator calls made by the last operation
    result               \* what the last operation returned or raised

vars == <<graph, embedding_model, classifier, clf_state, embedding_operator,
          _samples, splitter_calls, numpy_ties, calls, result>>

NoResult ==
    [op |-> "init", arg |-> None, exc |-> "none", bundle |-> NoBundle,
     matrix |-> <<>>, edges |-> <<>>, score |-> <<0, 1>>,
     ranked |-> <<>>, tp |-> 0]

Call(fn, g, x, y) == [fn |-> fn, g |-> g, x |-> x, y |-> y]

(* ---------------- the interpreter state of one operation ---------------- *)
\* k: how many of the next splitter calls return an empty bundle;
\* strict: whether DotDict raises on a missing key (or yields None)
Start(k, strict) ==
    [samples |-> _samples, em |-> embedding_model, clf |-> clf_state,
     calls |-> <<>>, nsplit |-> splitter_calls, k |-> k, strict |-> strict,
     exc |-> "none", g |-> NoneGraph, seq |-> <<>>, matrix |-> <<>>,
     edges |-> <<>>, proba |-> <<>>, score |-> <<0, 1>>, ranked |-> <<>>]

\* an exception raised earlier in the operation is propagating: the
\* statements that follow do not run
Raised(m) == m.exc # "none"

\* Evaluator.samples
samples(m) ==
    IF ~TruthyBundle(m.samples)
    THEN [m EXCEPT !.samples = get_train_test_samples(graph, m.k > 0),
                   !.k = IF m.k > 0 THEN m.k - 1 ELSE 0,
                   !.nsplit = @ + 1,
                   !.calls = Append(@, Call("split", graph, <<>>, <<>>))]
    ELSE m

\* self.samples.G_train / G_test: the subgraph, None or AttributeError
SubgraphOf(m, kind) ==
    LET a == samples(m)
    IN  IF Raised(m) THEN m
        ELSE IF a.samples.empty
        THEN IF a.strict THEN [a EXCEPT !.exc = "AttributeError"]
                         ELSE [a EXCEPT !.g = NoneGraph]
        ELSE [a EXCEPT !.g = Sub(kind, a.samples)]

\* self.samples.edge_ids_* / edge_labels_*
SeqOf(m, field) ==
    LET a == samples(m)
    IN  IF Raised(m) THEN m
        ELSE IF a.samples.empty
        THEN [a EXCEPT !.exc = "AttributeError"]
        ELSE [a EXCEPT !.seq =
                CASE field = "edge_ids_train" -> edge_ids_train(a.samples)
                  [] field = "edge_ids_test" -> edge_ids_test(a.samples)
                  [] field = "edge_labels_train" -> edge_labels_train(a.samples)
                  [] OTHER -> edge_labels_test(a.samples)]

\* self.embedding_model.fit(m.g); a model handed None fails inside fit
fit(m) ==
    LET c == [m EXCEPT !.calls = Append(@, Call("emb.fit", m.g, <<>>, <<>>))]
    IN  IF Raised(m) THEN m
        ELSE IF m.g.kind = "None" THEN [c EXCEPT !.exc = "AttributeError"]
        ELSE [c EXCEPT !.em.fitted = m.g]

\* return self.embedding_model.get_embedding()
ReadEmbedding(m) ==
    IF Raised(m) THEN m ELSE
    [m EXCEPT !.matrix = get_embedding(m.em),
              !.calls = Append(@, Call("emb.get_embedding", m.em.fitted, <<>>, <<>>))]

\* SelectGraph with the TEST branch fitting the train subgraph: C3 fails on it
SelectGraph_TestFitsTrain(m, sample_type) ==
    IF sample_type \in {"TRAIN", "TEST"} THEN SubgraphOf(m, "train")
    ELSE [m EXCEPT !.g = [kind |-> "full", n |-> graph.n, ver |-> graph.ver]]

\* the graph get_node_embeddings selects for sample_type
SelectGraph(m, sample_type) ==
    IF sample_type = "TRAIN" THEN SubgraphOf(m, "train")
    ELSE IF sample_type = "TEST" THEN SubgraphOf(m, "test")
    ELSE [m EXCEPT !.g = [kind |-> "full", n |-> graph.n, ver |-> graph.ver]]

\* Evaluator.get_node_embeddings
get_node_embeddings(m, sample_type) ==
    ReadEmbedding(fit(SelectGraph(m, sample_type)))

(* ----------------------- edge-embedding construction ------------------- *)
\* Combine with CONCAT putting embedding(v) first: C8 fails on it
Combine_ConcatSwapped(op, a, b) ==
    CASE op = "CONCAT" -> b \o a
      [] op = "HADAMARD" -> [c \in 1..Len(a) |-> a[c] * b[c]]
      [] op = "AVERAGE" -> [c \in 1..Len(a) |-> (a[c] + b[c]) \div 2]

\* np.concatenate / np.multiply / (a + b) / 2 on two node vectors
Combine(op, a, b) ==
    CASE op = "CONCAT" -> a \o b
      [] op = "HADAMARD" -> [c \in 1..Len(a) |-> a[c] * b[c]]
      [] op = "AVERAGE" -> [c \in 1..Len(a) |-> (a[c] + b[c]) \div 2]

EdgeIdsTrain(m) == SeqOf(m, "edge_ids_train")
EdgeIdsTest(m) == SeqOf(m, "edge_ids_test")
EdgeLabelsTrain(m) == SeqOf(m, "edge_labels_train")
EdgeLabelsTest(m) == SeqOf(m, "edge_labels_test")

\* BuildEdges without the raise after the last branch: C9 fails on it
BuildEdges_NoRaise(m) ==
    IF Raised(m) THEN m
    ELSE IF embedding_operator \in EdgeOperator
    THEN [m EXCEPT !.edges =
            [k \in 1..Len(m.seq) |->
                Combine(embedding_operator,
                        m.matrix[m.seq[k][1]], m.matrix[m.seq[k][2]])]]
    ELSE m

\* the three operator branches and the trailing raise
BuildEdges(m) ==
    IF Raised(m) THEN m
    ELSE IF embedding_operator \in EdgeOperator
    THEN [m EXCEPT !.edges =
            [k \in 1..Len(m.seq) |->
                Combine(embedding_operator,
                        m.matrix[m.seq[k][1]], m.matrix[m.seq[k][2]])]]
    ELSE [m EXCEPT !.exc = "UnknownOperator"]

\* NodeEmbeddingsFor reading the train embeddings for both types: C4 fails on it
NodeEmbeddingsFor_AlwaysTrain(m, sample_type) ==
    get_node_embeddings(m, "TRAIN")

\* the node embeddings get_edge_embeddings reads, through the properties
\* train_node_embeddings / test_node_embeddings
NodeEmbeddingsFor(m, sample_type) ==
    IF sample_type = "TRAIN" THEN get_node_embeddings(m, "TRAIN")
    ELSE get_node_embeddings(m, "TEST")

\* the edge-id sequence get_edge_embeddings reads
EdgeIdsFor(m, sample_type) ==
    IF sample_type = "TRAIN" THEN EdgeIdsTrain(m) ELSE EdgeIdsTest(m)

\* Evaluator.get_edge_embeddings
get_edge_embeddings(m, sample_type) ==
    BuildEdges(EdgeIdsFor(NodeEmbeddingsFor(m, sample_type), sample_type))

(* ------------------------------ ROC-AUC -------------------------------- *)
\* self.classifier.fit(train_edge_embeddings, self.samples.edge_labels_train)
ClfFit(m) ==
    IF Raised(m) THEN m ELSE
    [m EXCEPT !.clf = [fitted |-> TRUE, x |-> m.edges, y |-> m.seq],
              !.calls = Append(@, Call("clf.fit", NoneGraph, m.edges, m.seq))]

\* self.classifier.predict_proba(test_edge_embeddings)[:, 1]
ClfPredictProba(m) ==
    IF Raised(m) THEN m ELSE
    [m EXCEPT !.proba = predict_proba(m.clf, m.edges),
              !.calls = Append(@, Call("clf.predict_proba", NoneGraph, m.edges, <<>>))]

Score(m) ==
    IF Raised(m) THEN m ELSE [m EXCEPT !.score = roc_auc_score(m.seq, m.proba)]

TrainEdgeEmbeddings(m) == get_edge_embeddings(m, "TRAIN")
TestEdgeEmbeddings(m) == get_edge_embeddings(m, "TEST")

\* NotConfigured with `and` for `or`: C1 fails on it
NotConfigured_Both == ~Truthy(classifier) /\ ~Truthy(embedding_operator)

\* the guard that opens get_roc_auc_score
NotConfigured == ~Truthy(classifier) \/ ~Truthy(embedding_operator)

\* the body of get_roc_auc_score after the guard
RocBody(m) ==
    LET a == ClfFit(EdgeLabelsTrain(TrainEdgeEmbeddings(m)))
        b == ClfPredictProba(TestEdgeEmbeddings(a))
    IN  Score(EdgeLabelsTest(b))

\* Evaluator.get_roc_auc_score
get_roc_auc_score(m) ==
    IF NotConfigured THEN [m EXCEPT !.exc = "ConfigError"] ELSE RocBody(m)

(* --------------------------- precision at 100 -------------------------- *)
RECURSIVE Factorial(_)
Factorial(k) == IF k <= 1 THEN 1 ELSE k * Factorial(k - 1)

Dot(u, v) == SumVec([c \in 1..Len(u) |-> u[c] * v[c]])
Sign(x) == IF x > 0 THEN 1 ELSE IF x < 0 THEN -1 ELSE 0

\* sklearn cosine_similarity(u, v) = u.v / (|u| |v|), 0 for a zero vector,
\* carried as the integer sign(c) * c^2 * CosScale: the same order and the
\* same sign as c, which is all the ranking reads
CosScale(d) == 16 * Factorial(d) * Factorial(d)
Cosine(u, v) ==
    LET nu == Dot(u, u)
        nv == Dot(v, v)
        uv == Dot(u, v)
    IN  IF nu = 0 \/ nv = 0 THEN 0
        ELSE Sign(uv) * ((uv * uv * CosScale(Len(u))) \div (nu * nv))

\* (node_embeddings[:, None, :] == node_embeddings).sum(2) at [r, c]
Hamming(u, v) == Cardinality({c \in 1..Len(u) : u[c] = v[c]})

\* the similarity branches; the caller has checked the measure
Similarity(measure, u, v) ==
    CASE measure = "COSINE" -> Cosine(u, v)
      [] measure = "HAMMING" -> Hamming(u, v)
      [] measure = "DOT_PRODUCT" -> Dot(u, v)

\* np.tril(similarities, k=-1)[r, c]
Tril(measure, matrix, r, c) ==
    IF r > c THEN Similarity(measure, matrix[r], matrix[c]) ELSE 0

\* np.tril(similarities, k=-1).ravel(): row-major, flat index r * n + c
Ravel(measure, matrix, n) ==
    [idx \in 0..(n * n - 1) |-> Tril(measure, matrix, idx \div n, idx % n)]

\* np.unravel_index(idx, (n, n))
Unravel(idx, n) == <<idx \div n, idx % n>>

Reverse(s) == [k \in 1..Len(s) |-> s[Len(s) + 1 - k]]

SetMin(S) == CHOOSE x \in S : \A y \in S : x <= y

\* numpy leaves the order of equal values to the sort's implementation:
\* "lo" puts the lower flat index first, "hi" the higher
TieOrder(N, tie) ==
    IF tie = "lo" THEN [k \in 1..N |-> k - 1] ELSE [k \in 1..N |-> N - k]

RECURSIVE SortFrom(_, _, _, _)
\* the members of `order`, by value ascending, equal values in `order`'s order
SortFrom(values, order, flat, acc) ==
    IF values = {} THEN acc
    ELSE LET v == SetMin(values)
         IN  SortFrom(values \ {v}, order, flat,
                      acc \o SelectSeq(order, LAMBDA i : flat[i] = v))

\* indices[np.argsort(flat[indices])]: `indices` by value ascending
Argsort(flat, indices, tie) ==
    LET N == Cardinality(DOMAIN flat)
        order == SelectSeq(TieOrder(N, tie), LAMBDA i : i \in indices)
    IN  SortFrom({flat[i] : i \in indices}, order, flat, <<>>)

\* Argpartition keeping the first TopK of the partition: C7 fails on it
Argpartition_Smallest(flat, tie) ==
    LET sorted == Argsort(flat, DOMAIN flat, tie)
    IN  {sorted[k] : k \in 1..TopK}

\* np.argpartition(flat, -TopK)[-TopK:]: the flat indices of TopK largest
\* values (numpy rejects kth = -TopK when the array is shorter than TopK)
Argpartition(flat, tie) ==
    LET N == Cardinality(DOMAIN flat)
        sorted == Argsort(flat, DOMAIN flat, tie)
    IN  {sorted[k] : k \in (N - TopK + 1)..N}

\* lines 160-164: the ranked (row, column) pairs, best first, each with its
\* flat index and the value it was ranked by
Rank(flat, n, tiePart, tieSort) ==
    LET indices == Reverse(Argsort(flat, Argpartition(flat, tiePart), tieSort))
    IN  [k \in 1..Len(indices) |->
            [idx |-> indices[k], pair |-> Unravel(indices[k], n),
             val |-> flat[indices[k]]]]

\* lines 169-181: the ranked pairs that are edges of self.graph
TruePositives(ranked) ==
    Cardinality({k \in 1..Len(ranked) :
                    HasEdge(graph, ranked[k].pair[1], ranked[k].pair[2])})

\* FullGraphEmbeddings on the train split: C10 fails on it
FullGraphEmbeddings_OnTrainSplit(m) == get_node_embeddings(m, "TRAIN")

\* with performance_measuring(...): node_embeddings = self.get_node_embeddings()
FullGraphEmbeddings(m) == get_node_embeddings(m, None)

\* Evaluator.get_precision_at_100 up to the ranking: the embeddings of the
\* full graph, the measure dispatch, then mask, partition, sort and unravel;
\* np.argpartition raises ValueError (kth out of bounds) on fewer than TopK
\* entries
get_precision_at_100(m, measure) ==
    LET a == FullGraphEmbeddings(m)
        n == Cardinality(DOMAIN a.matrix)
    IN  IF Raised(a) THEN a
        ELSE IF measure \notin SimilarityMeasure
        THEN [a EXCEPT !.exc = "UnknownMeasure"]
        ELSE IF n * n < TopK
        THEN [a EXCEPT !.exc = "KthOutOfBounds"]
        ELSE [a EXCEPT !.ranked =
                Rank(Ravel(measure, a.matrix, n), n,
                     numpy_ties.part, numpy_ties.sort)]

(* ------------------------------ actions -------------------------------- *)
Max(a, b) == IF a > b THEN a ELSE b

\* the splitter's remaining freedom to return empty bundles in one operation
EmptyChoices ==
    IF TruthyBundle(_samples) THEN {0}
    ELSE 0..Max(0, MaxEmptySplits - splitter_calls)
StrictChoices(k) == IF k > 0 THEN BOOLEAN ELSE {TRUE}

\* the operation ends: the Evaluator and its collaborators keep what m holds
Commit(m, res) ==
    /\ _samples' = m.samples
    /\ embedding_model' = m.em
    /\ clf_state' = m.clf
    /\ splitter_calls' = m.nsplit
    /\ calls' = m.calls
    /\ result' = res
    /\ UNCHANGED <<graph, classifier, embedding_operator, numpy_ties>>

Outcome(op, arg, m) == [NoResult EXCEPT !.op = op, !.arg = arg, !.exc = m.exc]

\* Evaluator.__init__ on a graph of n nodes, with the given optional
\* arguments, under a numpy build with the given tie orders
Construct(nodes, seeds, classifiers, operators, ties) ==
    /\ graph \in [kind : {"full"}, n : nodes, ver : {0}]
    /\ embedding_model \in [seed : seeds, dim : Dims, fitted : {Unfit}]
    /\ classifier \in classifiers
    /\ clf_state = ClfUnfit
    /\ embedding_operator \in operators
    /\ numpy_ties \in [part : ties, sort : ties]
    /\ _samples = NoBundle
    /\ splitter_calls = 0
    /\ calls = <<>>
    /\ result = NoResult

\* every configuration of the Evaluator around one embedding model, on the
\* smallest graph that get_precision_at_100 can rank
Init == Construct({10}, {MaxSeed}, ClassifierValues, OperatorValues, {"lo"})

\* the precision-only Evaluator (no classifier, no operator) on every graph
\* size, embedding model and tie order
RankInit == Construct(NodeCounts, 0..MaxSeed, {None}, {None}, {"lo", "hi"})

\* evaluator.samples
AccessSamples ==
    \E k \in EmptyChoices : \E strict \in StrictChoices(k) :
        LET m == samples(Start(k, strict))
        IN  Commit(m, [Outcome("samples", None, m) EXCEPT !.bundle = m.samples])

\* evaluator.get_node_embeddings(sample_type)
GetNodeEmbeddings ==
    \E st \in SampleType \cup {None} :
    \E k \in EmptyChoices : \E strict \in StrictChoices(k) :
        LET m == get_node_embeddings(Start(k, strict), st)
        IN  Commit(m, [Outcome("get_node_embeddings", st, m) EXCEPT
                         !.matrix = IF m.exc = "none" THEN m.matrix ELSE <<>>])

\* evaluator.get_edge_embeddings(sample_type)
GetEdgeEmbeddings ==
    \E st \in SampleType :
    \E k \in EmptyChoices : \E strict \in StrictChoices(k) :
        LET m == get_edge_embeddings(Start(k, strict), st)
        IN  Commit(m, [Outcome("get_edge_embeddings", st, m) EXCEPT
                         !.edges = IF m.exc = "none" THEN m.edges ELSE <<>>])

\* evaluator.get_roc_auc_score()
GetRocAucScore ==
    \E k \in EmptyChoices : \E strict \in StrictChoices(k) :
        LET m == get_roc_auc_score(Start(k, strict))
        IN  Commit(m, [Outcome("get_roc_auc_score", None, m) EXCEPT
                         !.score = IF m.exc = "none" THEN m.score ELSE <<0, 1>>])

\* evaluator.get_precision_at_100(similarity_measure)
GetPrecisionAt100 ==
    \E measure \in MeasureValues :
        LET m == get_precision_at_100(Start(0, TRUE), measure)
        IN  Commit(m, [Outcome("get_precision_at_100", measure, m) EXCEPT
                         !.ranked = m.ranked,
                         !.tp = TruePositives(m.ranked),
                         !.score = <<TruePositives(m.ranked), TopK>>])

\* the caller mutates the graph it handed to the Evaluator
MutateGraph ==
    /\ graph.ver < MaxMutations
    /\ graph' = [graph EXCEPT !.ver = @ + 1]
    /\ UNCHANGED <<embedding_model, classifier, clf_state, embedding_operator,
                   _samples, splitter_calls, numpy_ties, calls, result>>

Next ==
    \/ AccessSamples
    \/ GetNodeEmbeddings
    \/ GetEdgeEmbeddings
    \/ GetRocAucScore
    \/ GetPrecisionAt100
    \/ MutateGraph

Spec == Init /\ [][Next]_vars

RankNext ==
    \/ GetPrecisionAt100
    \/ MutateGraph

RankSpec == RankInit /\ [][RankNext]_vars

(* ------------------------------- claims -------------------------------- *)
IsCall(fn) == LET F(c) == c.fn = fn IN SelectSeq(calls, F)
IsCallNext(fn) == LET F(c) == c.fn = fn IN SelectSeq(calls', F)
NotSplit == LET F(c) == c.fn # "split" IN SelectSeq(calls, F)
Fns(cs) == [k \in 1..Len(cs) |-> cs[k].fn]
FullGraph == [kind |-> "full", n |-> graph.n, ver |-> graph.ver]

\* the matrix the embedding model returns right after fit(g)
FitOn(g) == get_embedding([embedding_model EXCEPT !.fitted = g])

\* the edge vectors the spec prescribes for `ids` over `matrix`
Prescribed(op, matrix, ids, k, c) ==
    LET u == matrix[ids[k][1]]
        v == matrix[ids[k][2]]
        d == Len(u)
    IN  CASE op = "CONCAT" -> IF c <= d THEN u[c] ELSE v[c - d]
          [] op = "HADAMARD" -> u[c] * v[c]
          [] op = "AVERAGE" -> (u[c] + v[c]) \div 2
PrescribedDim(op, d) == IF op = "CONCAT" THEN 2 * d ELSE d
AlignedEdges(edges, op, matrix, ids) ==
    /\ Len(edges) = Len(ids)
    /\ \A k \in 1..Len(ids) :
        /\ Len(edges[k]) = PrescribedDim(op, embedding_model.dim)
        /\ \A c \in 1..Len(edges[k]) :
              edges[k][c] = Prescribed(op, matrix, ids, k, c)

\* C1: get_roc_auc_score with the classifier or the edge operator unset
\* raises the configuration error before any computation: the call makes no
\* collaborator call (no split, no fit, no read) and leaves the sample
\* bundle, the embedding model and the classifier as they were.
C1_ConfigErrorBeforeAnyComputation ==
    [][(result'.op = "get_roc_auc_score"
         /\ (classifier = None \/ embedding_operator = None))
        => /\ result'.exc = "ConfigError"
           /\ calls' = <<>>
           /\ UNCHANGED <<_samples, embedding_model, clf_state, splitter_calls>>]_vars
C1_Witness ==
    /\ result.op = "get_roc_auc_score" /\ result.exc = "ConfigError"
    /\ classifier = None /\ embedding_operator \in EdgeOperator
    /\ TruthyBundle(_samples) /\ embedding_model.fitted.kind = "test"

\* C2: over the life of one Evaluator the external splitter is invoked at
\* most once, whatever it returned.
C2_SplitterAtMostOnce == splitter_calls <= 1

\* C3: a get_node_embeddings call that returns has called fit exactly once
\* and then get_embedding exactly once, as its last two collaborator calls;
\* the graph fit is the train subgraph for TRAIN, the test subgraph for TEST
\* and the full graph when no sample type is given, and the matrix returned
\* is the one that fit produces, whatever was fit before.
C3_FitThenReadOnSelectedGraph ==
    [][(result'.op = "get_node_embeddings" /\ result'.exc = "none"
         /\ graph' = graph)
        => LET sel == CASE result'.arg = "TRAIN" -> Sub("train", _samples')
                        [] result'.arg = "TEST" -> Sub("test", _samples')
                        [] OTHER -> FullGraph
               n == Len(calls')
           IN  /\ Len(IsCallNext("emb.fit")) = 1
               /\ Len(IsCallNext("emb.get_embedding")) = 1
               /\ n >= 2
               /\ calls'[n - 1].fn = "emb.fit" /\ calls'[n - 1].g = sel
               /\ calls'[n].fn = "emb.get_embedding" /\ calls'[n].g = sel
               /\ result'.matrix = FitOn(sel)]_vars
C3_Witness ==
    /\ result.op = "get_node_embeddings" /\ result.arg = "TEST"
    /\ result.exc = "none" /\ result.matrix = FitOn(Sub("test", _samples))
    /\ graph.ver # _samples.ver

\* C4: a get_roc_auc_score call that returns has made, in this order, the
\* calls: embedding fit on the train subgraph, read, classifier fit on the
\* train edge embeddings with edge_labels_train, embedding fit on the test
\* subgraph, read, classifier predict_proba on the test edge embeddings built
\* from the test-subgraph fit; the classifier is fit once, before
\* predict_proba.
C4_RocAucCallOrder ==
    (result.op = "get_roc_auc_score" /\ result.exc = "none")
    => LET cs == NotSplit
           op == embedding_operator
       IN  /\ Fns(cs) = <<"emb.fit", "emb.get_embedding", "clf.fit",
                          "emb.fit", "emb.get_embedding", "clf.predict_proba">>
           /\ cs[1].g = Sub("train", _samples)
           /\ cs[4].g = Sub("test", _samples)
           /\ cs[3].y = edge_labels_train(_samples)
           /\ AlignedEdges(cs[3].x, op, FitOn(Sub("train", _samples)),
                           edge_ids_train(_samples))
           /\ AlignedEdges(cs[6].x, op, FitOn(Sub("test", _samples)),
                           edge_ids_test(_samples))
C4_Witness ==
    /\ result.op = "get_roc_auc_score" /\ result.exc = "none"
    /\ Len(IsCall("clf.fit")) = 1 /\ clf_state.fitted

\* C8: a get_edge_embeddings call that returns under a valid operator gives
\* one vector per edge id of its sample type, the k-th built from the k-th
\* pair (u, v) over the node embeddings fit on that sample type's subgraph,
\* of dimension 2d for CONCAT (u first) and d for HADAMARD and AVERAGE; so it
\* is as long as the label sequence.
C8_EdgeEmbeddingsAligned ==
    (result.op = "get_edge_embeddings" /\ result.exc = "none")
    => LET train == result.arg = "TRAIN"
           ids == IF train THEN edge_ids_train(_samples)
                  ELSE edge_ids_test(_samples)
           labels == IF train THEN edge_labels_train(_samples)
                     ELSE edge_labels_test(_samples)
           sub == Sub(IF train THEN "train" ELSE "test", _samples)
       IN  /\ embedding_operator \in EdgeOperator
           /\ Len(result.edges) = Len(labels)
           /\ AlignedEdges(result.edges, embedding_operator, FitOn(sub), ids)
C8_Witness ==
    /\ result.op = "get_edge_embeddings" /\ result.exc = "none"
    /\ result.arg = "TRAIN" /\ embedding_operator = "CONCAT"
    /\ embedding_model.dim = MaxDim /\ Len(result.edges) = 3
    /\ Len(result.edges[1]) = 2 * MaxDim

\* C9: with the edge operator unset or outside {CONCAT, HADAMARD, AVERAGE},
\* get_edge_embeddings returns no edge embeddings for either sample type and,
\* given a well-formed sample bundle, raises the unrecognized-operator error;
\* get_roc_auc_score raises the same error when the classifier is set and the
\* operator is a truthy value outside the set, without touching the
\* classifier.
C9_UnknownOperator ==
    /\ (result.op = "get_edge_embeddings" /\ embedding_operator \notin EdgeOperator)
       => /\ result.exc # "none" /\ result.edges = <<>>
          /\ TruthyBundle(_samples) => result.exc = "UnknownOperator"
    /\ (result.op = "get_roc_auc_score" /\ Truthy(classifier)
          /\ Truthy(embedding_operator) /\ embedding_operator \notin EdgeOperator)
       => /\ result.exc # "none" /\ IsCall("clf.fit") = <<>>
          /\ IsCall("clf.predict_proba") = <<>>
          /\ TruthyBundle(_samples) => result.exc = "UnknownOperator"
C9_Witness ==
    /\ result.op = "get_roc_auc_score" /\ classifier # None
    /\ embedding_operator = "BOGUS" /\ result.exc = "UnknownOperator"
    /\ Len(IsCall("emb.fit")) = 1

\* C10: a get_precision_at_100 call, whether it returns a score or raises,
\* fits the embedding model exactly once, on the full graph, and reads it
\* once; it invokes no splitter, leaves the memoized bundle as it was and
\* neither fits nor queries the classifier.
C10_PrecisionOnFullGraphOnly ==
    [][(result'.op = "get_precision_at_100" /\ graph' = graph)
        => /\ calls' = << Call("emb.fit", FullGraph, <<>>, <<>>),
                          Call("emb.get_embedding", FullGraph, <<>>, <<>>) >>
           /\ embedding_model'.fitted = FullGraph
           /\ UNCHANGED <<_samples, splitter_calls, clf_state>>]_vars
C10_Witness ==
    /\ result.op = "get_precision_at_100" /\ result.exc = "none"
    /\ TruthyBundle(_samples) /\ clf_state.fitted
    /\ _samples.ver # graph.ver

RankedOk == result.op = "get_precision_at_100" /\ result.exc = "none"
Nodes == 0..(graph.n - 1)
PairsBelowDiagonal == (graph.n * (graph.n - 1)) \div 2

\* C5: every ranked pair that get_precision_at_100 tests against the graph's
\* edges has row strictly greater than column: no self-pair, and no
\* unordered node pair twice.
C5_RankedPairsStrictlyLower ==
    RankedOk => \A k \in 1..Len(result.ranked) :
                    result.ranked[k].pair[1] > result.ranked[k].pair[2]

\* C6: on a graph with fewer than 100 node pairs below the diagonal,
\* get_precision_at_100 under a valid measure returns a score and ranks
\* exactly n(n-1)/2 pairs.
C6_ClampsToAvailablePairs ==
    (result.op = "get_precision_at_100" /\ result.arg \in SimilarityMeasure
      /\ PairsBelowDiagonal < TopK)
    => /\ result.exc = "none"
       /\ Len(result.ranked) = PairsBelowDiagonal

\* C7: the ranking holds 100 distinct positions of the masked matrix, in
\* non-increasing order of value; every position left out has a value no
\* larger than the smallest one ranked; and each ranked flat index is the
\* row-major index of its (row, column), whose masked similarity is the
\* value it was ranked by.
C7_TopKLargestDescending ==
    RankedOk =>
      LET r == result.ranked
          matrix == FitOn(embedding_model.fitted)
          masked(p) == Tril(result.arg, matrix, p[1], p[2])
          chosen == {r[k].pair : k \in 1..Len(r)}
      IN  /\ Len(r) = TopK
          /\ Cardinality(chosen) = TopK
          /\ chosen \subseteq Nodes \X Nodes
          /\ \A k \in 1..(Len(r) - 1) : r[k].val >= r[k + 1].val
          /\ \A p \in (Nodes \X Nodes) \ chosen : masked(p) <= r[Len(r)].val
          /\ \A k \in 1..Len(r) :
                /\ r[k].idx = r[k].pair[1] * graph.n + r[k].pair[2]
                /\ r[k].val = masked(r[k].pair)
C7_Witness ==
    /\ RankedOk /\ graph.n * graph.n > TopK
    /\ result.arg = "DOT_PRODUCT"
    /\ result.ranked[1].val > result.ranked[TopK].val
    /\ \E p \in (Nodes \X Nodes) \ {result.ranked[k].pair : k \in 1..TopK} :
          Tril(result.arg, FitOn(embedding_model.fitted), p[1], p[2])
            < result.ranked[TopK].val

=============================================================================


